---- MODULE Spec2Model ----
(***************************************************************************)
(* Streaming tool-call orchestration of gpt-oss-chat.                      *)
(*                                                                         *)
(* Two loops are modelled from the source:                                 *)
(*   run_chat_loop   (src/api_call.py)      program = "chat"               *)
(*   run_agent_turn  (src/sheets_agent.py)  program = "agent"              *)
(* together with the helpers they share: append_to_chat_history,           *)
(* execute_sheets_tool and the JSON conversions applied to the argument    *)
(* buffer of a streamed tool call.                                         *)
(*                                                                         *)
(* Text.  A Python str whose inside the code inspects (the argument        *)
(* buffer, tool results, message contents) is a sequence of tokens, each   *)
(* token a TLA+ string holding one or more characters.  Fragment           *)
(* boundaries of the transport fall between tokens.  A str the code only   *)
(* compares or passes on (tool names, call ids, dictionary keys and        *)
(* values) is a plain TLA+ string.                                         *)
(***************************************************************************)
EXTENDS Integers, Sequences, FiniteSets, TLC

(***************************************************************************)
(* Bounds of the model.                                                    *)
(***************************************************************************)
\* fragments of one stream
MaxEvents == 2
\* user turns of one run_chat_loop session
MaxTurns == 2
\* turns and tool-call rounds, together, of one run_agent_loop session
MaxSteps == 3
\* fragments the argument string is split into in the accumulation check
MaxFrags == 3
\* messages of a log handed to append_to_chat_history in isolation
MaxLogLen == 2

\* tool-call rounds of one session where two sessions are interleaved
MaxSessionRounds == 2
\* chunk_text: the longest text, the largest chunk_size and overlap
MaxTextLen == 4
MaxChunkSize == 3

\* run_agent_turn(chat_history, 5) of the follow-up loop
FollowUpMaxToolCalls == 5

\* Python's None, where the other values are strings
NONE == "<None>"

(***************************************************************************)
(* Text helpers.                                                           *)
(***************************************************************************)
QUOTE == "\""

\* ''.join(tokens): the Python str a token sequence stands for
RECURSIVE Join(_)
Join(t) == IF t = <<>> THEN "" ELSE Head(t) \o Join(Tail(t))

\* str.startswith(marker), marker being one token
StartsWith(t, marker) == t # <<>> /\ Head(t) = marker

\* str.replace(marker, '')
RECURSIVE Remove(_, _)
Remove(t, marker) ==
    IF t = <<>> THEN <<>>
    ELSE IF Head(t) = marker THEN Remove(Tail(t), marker)
    ELSE <<Head(t)>> \o Remove(Tail(t), marker)

RECURSIVE LStrip(_)
LStrip(t) == IF t # <<>> /\ Head(t) = " " THEN LStrip(Tail(t)) ELSE t

RECURSIVE RStrip(_)
RStrip(t) ==
    IF t # <<>> /\ t[Len(t)] = " " THEN RStrip(SubSeq(t, 1, Len(t) - 1)) ELSE t

\* str.strip()
Strip(t) == RStrip(LStrip(t))

\* needle in t, for a one-token needle
Contains(t, needle) == \E i \in 1..Len(t) : t[i] = needle

IsPrefix(s, t) == Len(s) <= Len(t) /\ SubSeq(t, 1, Len(s)) = s

(***************************************************************************)
(* json.loads / json.dumps on the argument buffer.                         *)
(* The buffer is a token sequence; the structural characters { } " : ,     *)
(* and the blank are tokens of their own.  The language covered is the     *)
(* one tool arguments use: one object whose keys and values are strings.   *)
(* A dict is the sequence of its [k, v] items in insertion order.          *)
(***************************************************************************)
JsonError == [ok |-> FALSE, val |-> <<>>]

RECURSIVE SkipWs(_, _)
SkipWs(s, i) == IF i <= Len(s) /\ s[i] = " " THEN SkipWs(s, i + 1) ELSE i

\* the characters of a string literal up to its closing quote
RECURSIVE ScanString(_, _, _)
ScanString(s, i, acc) ==
    IF i > Len(s) THEN [ok |-> FALSE, val |-> "", next |-> i]
    ELSE IF s[i] = QUOTE THEN [ok |-> TRUE, val |-> acc, next |-> i + 1]
    ELSE ScanString(s, i + 1, acc \o s[i])

ParseString(s, i) ==
    IF i <= Len(s) /\ s[i] = QUOTE THEN ScanString(s, i + 1, "")
    ELSE [ok |-> FALSE, val |-> "", next |-> i]

HasKey(d, k) == \E i \in 1..Len(d) : d[i].k = k

\* d[k] = v: a key already present keeps its place and takes the new value
DictSet(d, k, v) ==
    IF HasKey(d, k)
    THEN [i \in 1..Len(d) |-> IF d[i].k = k THEN [k |-> k, v |-> v] ELSE d[i]]
    ELSE Append(d, [k |-> k, v |-> v])

\* d.get(k), NONE when the key is missing
DictGet(d, k) ==
    IF HasKey(d, k) THEN d[CHOOSE i \in 1..Len(d) : d[i].k = k].v ELSE NONE

\* the members of an object from position i, up to and including its }
RECURSIVE ParseMembers(_, _, _)
ParseMembers(s, i, acc) ==
    LET key == ParseString(s, SkipWs(s, i))
        c   == SkipWs(s, key.next)
        val == ParseString(s, SkipWs(s, c + 1))
        e   == SkipWs(s, val.next)
    IN  IF ~key.ok \/ c > Len(s) \/ s[c] # ":" \/ ~val.ok \/ e > Len(s)
        THEN [ok |-> FALSE, val |-> <<>>, next |-> i]
        ELSE IF s[e] = "," THEN ParseMembers(s, e + 1, DictSet(acc, key.val, val.val))
        ELSE IF s[e] = "}"
        THEN [ok |-> TRUE, val |-> DictSet(acc, key.val, val.val), next |-> e + 1]
        ELSE [ok |-> FALSE, val |-> <<>>, next |-> i]

ParseObject(s, i) ==
    IF i > Len(s) \/ s[i] # "{" THEN [ok |-> FALSE, val |-> <<>>, next |-> i]
    ELSE LET j == SkipWs(s, i + 1)
         IN  IF j <= Len(s) /\ s[j] = "}"
             THEN [ok |-> TRUE, val |-> <<>>, next |-> j + 1]
             ELSE ParseMembers(s, i + 1, <<>>)

\* json.loads(s): ok = FALSE stands for json.JSONDecodeError
JsonLoads(s) ==
    LET r == ParseObject(s, SkipWs(s, 1))
    IN  IF r.ok /\ SkipWs(s, r.next) = Len(s) + 1
        THEN [ok |-> TRUE, val |-> r.val]
        ELSE JsonError

RECURSIVE DumpItems(_)
DumpItems(d) ==
    IF d = <<>> THEN ""
    ELSE QUOTE \o Head(d).k \o QUOTE \o ": " \o QUOTE \o Head(d).v \o QUOTE
         \o (IF Len(d) > 1 THEN ", " ELSE "") \o DumpItems(Tail(d))

\* json.dumps(d)
JsonDumps(d) == "{" \o DumpItems(d) \o "}"

(***************************************************************************)
(* The conversation log.                                                   *)
(* A message is a record; tool_call_id = NONE and tool_calls = <<>> stand  *)
(* for a dictionary without that key.                                      *)
(***************************************************************************)
PlainMessage(role, content) ==
    [role |-> role, content |-> content, tool_call_id |-> NONE, tool_calls |-> <<>>]

\* append_to_chat_history without the tool_call_id of a tool message
AppendToChatHistory_DropId(role, content, chat_history, tool_call_id, tool_identifier, tool_name, tool_args) ==
    IF tool_identifier
    THEN Append(chat_history,
                [role |-> role, content |-> content, tool_call_id |-> NONE,
                 tool_calls |-> <<[id |-> tool_call_id, type |-> "function",
                                   name |-> tool_name, arguments |-> tool_args]>>])
    ELSE Append(chat_history, PlainMessage(role, content))

\* append_to_chat_history that refuses a tool message no tool call precedes
AppendToChatHistory_Validating(role, content, chat_history, tool_call_id, tool_identifier, tool_name, tool_args) ==
    IF tool_identifier
    THEN Append(chat_history,
                [role |-> role, content |-> content, tool_call_id |-> NONE,
                 tool_calls |-> <<[id |-> tool_call_id, type |-> "function",
                                   name |-> tool_name, arguments |-> tool_args]>>])
    ELSE IF tool_call_id # NONE
    THEN IF /\ chat_history # <<>>
            /\ \E i \in 1..Len(chat_history[Len(chat_history)].tool_calls) :
                  chat_history[Len(chat_history)].tool_calls[i].id = tool_call_id
         THEN Append(chat_history,
                     [role |-> role, content |-> content,
                      tool_call_id |-> tool_call_id, tool_calls |-> <<>>])
         ELSE chat_history
    ELSE Append(chat_history, PlainMessage(role, content))

\* append_to_chat_history(role, content, chat_history, tool_call_id,
\*                        tool_identifier, tool_name, tool_args)
AppendToChatHistory(role, content, chat_history, tool_call_id, tool_identifier, tool_name, tool_args) ==
    IF tool_identifier
    THEN Append(chat_history,
                [role |-> role, content |-> content, tool_call_id |-> NONE,
                 tool_calls |-> <<[id |-> tool_call_id, type |-> "function",
                                   name |-> tool_name, arguments |-> tool_args]>>])
    ELSE IF tool_call_id # NONE
    THEN Append(chat_history,
                [role |-> role, content |-> content,
                 tool_call_id |-> tool_call_id, tool_calls |-> <<>>])
    ELSE Append(chat_history, PlainMessage(role, content))

\* an append that starts the log afresh
AppendPlain_Overwrite(role, content, chat_history) == <<PlainMessage(role, content)>>

\* the call with the positional arguments only
AppendPlain(role, content, chat_history) ==
    AppendToChatHistory(role, content, chat_history, NONE, FALSE, NONE, NONE)

\* list.pop()
Pop(chat_history) == SubSeq(chat_history, 1, Len(chat_history) - 1)

IsToolCallMessage(m) == m.tool_calls # <<>>

(***************************************************************************)
(* Stream fragments (event.choices[0].delta).                              *)
(* tool_calls = FALSE stands for delta.tool_calls is None, has_content =   *)
(* FALSE for delta.content is None; name and id are those of               *)
(* delta.tool_calls[0], NONE when absent.                                  *)
(***************************************************************************)
NameFragment(name, id) ==
    [tool_calls |-> TRUE, name |-> name, id |-> id, arguments |-> <<>>,
     has_content |-> FALSE, content |-> <<>>]

\* a fragment that carries the name, the id and a piece of the arguments
CallFragment(name, id, piece) ==
    [tool_calls |-> TRUE, name |-> name, id |-> id, arguments |-> piece,
     has_content |-> FALSE, content |-> <<>>]

ArgsFragment(piece) ==
    [tool_calls |-> TRUE, name |-> NONE, id |-> NONE, arguments |-> piece,
     has_content |-> FALSE, content |-> <<>>]

ContentFragment(text) ==
    [tool_calls |-> FALSE, name |-> NONE, id |-> NONE, arguments |-> <<>>,
     has_content |-> TRUE, content |-> text]

\* the accumulators with a tool name left over from an earlier round
AgentAccInit_StaleName ==
    [tool_args |-> <<>>, tool_name |-> "list_sheets", tool_id |-> "call_1",
     response_content |-> <<>>]

\* the accumulators of run_agent_turn before a stream is read
AgentAccInit ==
    [tool_args |-> <<>>, tool_name |-> NONE, tool_id |-> NONE,
     response_content |-> <<>>]

\* the loop body with the argument piece replacing the buffer
AgentAccumStep_Overwrite(acc, event) ==
    LET a == IF event.tool_calls
             THEN [acc EXCEPT
                     !.tool_name = IF event.name # NONE THEN event.name ELSE @,
                     !.tool_id   = IF event.name # NONE THEN event.id ELSE @,
                     !.tool_args = event.arguments]
             ELSE acc
    IN  IF event.has_content
        THEN [a EXCEPT !.response_content = @ \o event.content]
        ELSE a

\* one iteration of "for event in stream" in run_agent_turn
AgentAccumStep(acc, event) ==
    LET a == IF event.tool_calls
             THEN [acc EXCEPT
                     !.tool_name = IF event.name # NONE THEN event.name ELSE @,
                     !.tool_id   = IF event.name # NONE THEN event.id ELSE @,
                     !.tool_args = @ \o event.arguments]
             ELSE acc
    IN  IF event.has_content
        THEN [a EXCEPT !.response_content = @ \o event.content]
        ELSE a

\* the accumulators of run_chat_loop before the first stream is read
ChatAccInit ==
    [tool_args |-> <<>>, tool_name |-> NONE, tool_id |-> NONE,
     dangling_stream_content |-> <<>>, broke |-> FALSE]

\* one iteration of the first "for event in stream" in run_chat_loop;
\* broke records the break that ends the loop on a content fragment
ChatAccumStep(acc, event) ==
    LET a == IF event.tool_calls
             THEN [acc EXCEPT
                     !.tool_name = IF event.name # NONE THEN event.name ELSE @,
                     !.tool_id   = IF event.name # NONE THEN event.id ELSE @,
                     !.tool_args = @ \o event.arguments]
             ELSE acc
    IN  IF event.has_content
        THEN [a EXCEPT !.dangling_stream_content = event.content, !.broke = TRUE]
        ELSE a

\* a whole stream read by run_agent_turn
RECURSIVE AgentAccumulate(_, _)
AgentAccumulate(acc, stream) ==
    IF stream = <<>> THEN acc
    ELSE AgentAccumulate(AgentAccumStep(acc, Head(stream)), Tail(stream))

\* a whole stream read by the first loop of run_chat_loop, up to its break
RECURSIVE ChatAccumulate(_, _)
ChatAccumulate(acc, stream) ==
    IF stream = <<>> \/ acc.broke THEN acc
    ELSE ChatAccumulate(ChatAccumStep(acc, Head(stream)), Tail(stream))

\* the positions of the fragments that carry a tool name
NamePositions(stream) == {i \in 1..Len(stream) : stream[i].name # NONE}

\* the arguments pieces of the fragments i..j, in order
RECURSIVE ArgumentsOf(_, _, _)
ArgumentsOf(stream, i, j) ==
    IF i > j THEN <<>>
    ELSE (IF stream[i].tool_calls THEN stream[i].arguments ELSE <<>>)
         \o ArgumentsOf(stream, i + 1, j)

\* the content pieces of a stream, in order
RECURSIVE ContentOf(_)
ContentOf(stream) ==
    IF stream = <<>> THEN <<>>
    ELSE (IF Head(stream).has_content THEN Head(stream).content ELSE <<>>)
         \o ContentOf(Tail(stream))

\* no stream read yet, and none to be recorded
NoStream ==
    [observe |-> FALSE, read |-> FALSE, calls |-> 0, nameless |-> FALSE, name |-> NONE, id |-> NONE,
     arguments |-> <<>>, content |-> <<>>]

\* what the transport sent in a stream: how many calls it introduces (a
\* call starts with the fragment that carries its name and id and goes on
\* to the next such fragment), whether it carries tool-call fragments and
\* no name at all, the name, id and arguments of the first call, and its
\* content
StreamSeen(stream) ==
    LET names  == NamePositions(stream)
        first  == IF names = {} THEN 0
                  ELSE CHOOSE i \in names : \A j \in names : i <= j
        later  == names \ {first}
        end    == IF later = {} THEN Len(stream)
                  ELSE (CHOOSE i \in later : \A j \in later : i <= j) - 1
    IN  [observe |-> TRUE, read |-> TRUE,
         calls |-> Cardinality(names),
         nameless |-> names = {} /\ \E i \in 1..Len(stream) : stream[i].tool_calls,
         name |-> IF first = 0 THEN NONE ELSE stream[first].name,
         id |-> IF first = 0 THEN NONE ELSE stream[first].id,
         arguments |-> IF first = 0 THEN <<>> ELSE ArgumentsOf(stream, first, end),
         content |-> ContentOf(stream)]

\* no stream read yet, the streams read are to be recorded
Observing == [NoStream EXCEPT !.observe = TRUE]

\* the record of the stream read, kept where streams are recorded
Seen(seen, stream) == IF seen.observe THEN StreamSeen(stream) ELSE seen

\* no stream has been read: a create call returns a new one, and a new
\* turn or the end of the loop leaves the last one behind
Fresh(seen) == IF seen.observe THEN Observing ELSE seen

(***************************************************************************)
(* execute_sheets_tool.                                                    *)
(* The handlers (_tool_list_sheets, ...) are collaborators: h is what the  *)
(* handler does when called, h.raises with the message h.out or a return   *)
(* of the text h.out.                                                      *)
(***************************************************************************)
MARKER == "[USER_FEEDBACK_REQUESTED]"

\* "not x" for a value of kwargs.get
Falsy(x) == x = NONE \/ x = ""

\* _tool_request_user_feedback(question)
ToolRequestUserFeedback(question) == <<MARKER, " ", question>>

\* the names of sheets_tools, the manifest run_agent_turn submits
SheetsToolNames ==
    {"list_sheets", "analyze_headers", "analyze_column", "sample_data",
     "find_connections", "assess_quality", "generate_summary",
     "request_user_feedback"}

\* the names of tools, the manifest run_chat_loop submits
ChatManifestNames == {"search_web"}

\* the 'required' list of a tool's entry in sheets_tools
SheetsRequired(tool_name) ==
    CASE tool_name = "analyze_headers" -> {"sheet_name"}
      [] tool_name = "analyze_column" -> {"sheet_name", "column_name"}
      [] tool_name = "sample_data" -> {"sheet_name"}
      [] tool_name = "assess_quality" -> {"sheet_name"}
      [] tool_name = "request_user_feedback" -> {"question"}
      [] OTHER -> {}

\* the 'required' list of search_web's entry in tools
ChatRequired(tool_name) == IF tool_name = "search_web" THEN {"topic"} ELSE {}

\* the branch of execute_sheets_tool reaches a handler call
HandlerCalled(ctx, tool_name, kwargs) ==
    /\ ctx.reader # NONE
    /\ CASE tool_name = "list_sheets" -> TRUE
         [] tool_name = "analyze_headers" -> ~Falsy(DictGet(kwargs, "sheet_name"))
         [] tool_name = "analyze_column" ->
                /\ ~Falsy(DictGet(kwargs, "sheet_name"))
                /\ ~Falsy(DictGet(kwargs, "column_name"))
         [] tool_name = "sample_data" -> ~Falsy(DictGet(kwargs, "sheet_name"))
         [] tool_name = "find_connections" -> TRUE
         [] tool_name = "assess_quality" -> ~Falsy(DictGet(kwargs, "sheet_name"))
         [] tool_name = "generate_summary" -> TRUE
         [] tool_name = "request_user_feedback" ->
                ~Falsy(DictGet(kwargs, "question"))
         [] OTHER -> FALSE

\* what the try block makes of the handler's behaviour
Handled(tool_name, h) ==
    IF h.raises THEN <<"Error executing ", tool_name, ": ">> \o h.out ELSE h.out

\* execute_sheets_tool(tool_name, **kwargs)
ExecuteSheetsTool(ctx, tool_name, kwargs, h) ==
    IF ctx.reader = NONE
    THEN <<"Error: Sheets context not initialized. Please load a file first.">>
    ELSE CASE tool_name = "list_sheets" -> Handled(tool_name, h)
           [] tool_name = "analyze_headers" ->
                IF Falsy(DictGet(kwargs, "sheet_name"))
                THEN <<"Error: sheet_name is required">>
                ELSE Handled(tool_name, h)
           [] tool_name = "analyze_column" ->
                IF Falsy(DictGet(kwargs, "sheet_name"))
                   \/ Falsy(DictGet(kwargs, "column_name"))
                THEN <<"Error: sheet_name and column_name are required">>
                ELSE Handled(tool_name, h)
           [] tool_name = "sample_data" ->
                IF Falsy(DictGet(kwargs, "sheet_name"))
                THEN <<"Error: sheet_name is required">>
                ELSE Handled(tool_name, h)
           [] tool_name = "find_connections" -> Handled(tool_name, h)
           [] tool_name = "assess_quality" ->
                IF Falsy(DictGet(kwargs, "sheet_name"))
                THEN <<"Error: sheet_name is required">>
                ELSE Handled(tool_name, h)
           [] tool_name = "generate_summary" -> Handled(tool_name, h)
           [] tool_name = "request_user_feedback" ->
                IF Falsy(DictGet(kwargs, "question"))
                THEN <<"Error: question is required">>
                ELSE ToolRequestUserFeedback(DictGet(kwargs, "question"))
           [] OTHER -> <<"Error: Unknown tool: ", tool_name>>

(***************************************************************************)
(* State.                                                                  *)
(*   program          which loop runs: "agent" or "chat"                   *)
(*   pc               position of the loop                                 *)
(*   chat_history     the conversation log (messages in api_call.py)       *)
(*   acc              tool_args, tool_name, tool_id and the content        *)
(*                    accumulator, kept while the loop waits               *)
(*   result           the local result of run_chat_loop; it is a local of  *)
(*                    the function and outlives a turn                     *)
(*   tool_kwargs      parsed arguments of the round                        *)
(*   tool_call_count, max_tool_calls   locals of run_agent_turn            *)
(*   sheets_context   _sheets_context of sheets/tools.py                   *)
(* Observation only (no code reads them):                                  *)
(*   turns        user turns started                                       *)
(*   rounds       tool-call rounds dispatched in the session               *)
(*   submissions  calls of client.chat.completions.create in this turn     *)
(*   tools_sent   the last create call carried a tools manifest            *)
(*   invocations  handler calls made in this turn                          *)
(*   pending      feedback questions asked and not yet answered            *)
(*   outcome      how the turn ended                                       *)
(*   turn_start   the log before the turn's user message was appended      *)
(*   round        what the last tool-call round did                        *)
(*   input        what the stream read last carried, where                 *)
(*                input.observe asks for it; where one function is         *)
(*                exercised on its own, the arguments it was given         *)
(***************************************************************************)
VARIABLES program, pc, chat_history, acc, result, tool_kwargs, tool_call_count,
          max_tool_calls, sheets_context, turns, rounds, submissions,
          tools_sent, invocations, pending, outcome, turn_start, round, input

vars == <<program, pc, chat_history, acc, result, tool_kwargs, tool_call_count,
          max_tool_calls, sheets_context, turns, rounds, submissions,
          tools_sent, invocations, pending, outcome, turn_start, round, input>>

\* locals of run_agent_turn
agentLocals == <<tool_kwargs, tool_call_count, max_tool_calls>>

Unbound == [bound |-> FALSE, val |-> <<>>]
Bound(text) == [bound |-> TRUE, val |-> text]

NoRound ==
    [active |-> FALSE, name |-> NONE, id |-> NONE, args_empty |-> TRUE,
     malformed |-> FALSE, executed |-> FALSE, called |-> FALSE,
     feedback |-> FALSE, content_seen |-> FALSE, count_before |-> 0,
     log_before |-> <<>>]

(***************************************************************************)
(* What the environment may supply.                                        *)
(***************************************************************************)
SystemText == <<"SYSTEM">>
InitialPrompt == <<"Analyze this workbook">>
UserInputs == {<<"hello">>}
Answers == {<<"it's about sales">>}
ContentPieces == {<<"Hi">>}

\* {"question":"what?"} whole and cut short; {}, the whole
\* {"topic":"weather"} coming with the name (ChatEvents)
AgentArgPieces ==
    {<<"{", QUOTE, "question", QUOTE, ":", QUOTE, "what?", QUOTE, "}">>,
     <<"{", QUOTE, "question", QUOTE, ":">>}
ChatArgPieces == {<<"{", "}">>}

AgentToolNames == {"list_sheets", "request_user_feedback", "no_such_tool"}
ChatToolNames == {"search_web", "local_rag"}

AgentEvents ==
    {NameFragment(n, NONE) : n \in AgentToolNames}
    \cup {ArgsFragment(p) : p \in AgentArgPieces}
    \cup {ContentFragment(c) : c \in ContentPieces}

ChatEvents ==
    {NameFragment(n, NONE) : n \in ChatToolNames}
    \cup {CallFragment("search_web", NONE,
                         <<"{", QUOTE, "topic", QUOTE, ":", QUOTE, "weather", QUOTE, "}">>)}
    \cup {ArgsFragment(p) : p \in ChatArgPieces}
    \cup {ContentFragment(c) : c \in ContentPieces}

\* the transport gives each call a stream introduces an id of its own:
\* the k-th fragment that carries a name carries the k-th id
WithIds(stream) ==
    [i \in 1..Len(stream) |->
        IF stream[i].name # NONE
        THEN [stream[i] EXCEPT
                !.id = "call_" \o ToString(
                          Cardinality({j \in 1..i : stream[j].name # NONE}))]
        ELSE stream[i]]

\* the streams of at most MaxEvents fragments
Streams(events) ==
    UNION {{WithIds(s) : s \in [1..n -> events]} : n \in 0..MaxEvents}

AgentStreams == Streams(AgentEvents)
ChatStreams == Streams(ChatEvents)

\* what a handler does when it is called
HandlerBehaviours ==
    {[raises |-> FALSE, out |-> <<"rows: 3">>], [raises |-> TRUE, out |-> <<"boom">>]}

\* set_sheets_context(reader=reader, ...) of run_agent_loop
SheetsContext == [reader |-> "reader", analyzer |-> "analyzer"]

(***************************************************************************)
(* Initial states: run_agent_loop up to its first call of run_agent_turn,  *)
(* and api_call.py up to the first console.input of run_chat_loop.         *)
(***************************************************************************)
InitCommon ==
    /\ result = Unbound
    /\ tool_kwargs = <<>>
    /\ tool_call_count = 0
    /\ rounds = 0
    /\ submissions = 0
    /\ tools_sent = FALSE
    /\ invocations = 0
    /\ pending = <<>>
    /\ outcome = "none"
    /\ round = NoRound

AgentStart ==
    /\ program = "agent"
    /\ pc = "loop"
    /\ acc = AgentAccInit
    /\ sheets_context = SheetsContext
    /\ turn_start = AppendPlain("system", SystemText, <<>>)
    /\ chat_history =
         AppendPlain("user", InitialPrompt, AppendPlain("system", SystemText, <<>>))
    /\ max_tool_calls \in 0..(MaxSteps - 1)
    /\ turns = 1
    /\ InitCommon

ChatStart ==
    /\ program = "chat"
    /\ pc = "input"
    /\ acc = ChatAccInit
    /\ sheets_context = [reader |-> NONE, analyzer |-> NONE]
    /\ turn_start = AppendPlain("system", SystemText, <<>>)
    /\ chat_history = AppendPlain("system", SystemText, <<>>)
    /\ max_tool_calls = 0
    /\ turns = 0
    /\ InitCommon

InitAgent == AgentStart /\ input = NoStream

InitChat == ChatStart /\ input = NoStream

Init == InitAgent \/ InitChat

\* the same starts, with the streams read recorded in input
InitAgentObserved == AgentStart /\ input = Observing

InitChatObserved == ChatStart /\ input = Observing

InitObserved == InitAgentObserved \/ InitChatObserved

(***************************************************************************)
(* run_agent_turn.                                                         *)
(* A step runs from one point where the loop waits for its environment     *)
(* (the create call, the stream, Prompt.ask) to the next.                  *)
(***************************************************************************)
\* the loop condition with the budget off by one
AgentBudgetLeft_OffByOne(count, max) == count <= max

\* while tool_call_count < max_tool_calls
AgentBudgetLeft(count, max) == count < max

\* a round that leaves the counter alone
NextToolCallCount_Stuck(count) == count

\* tool_call_count += 1
NextToolCallCount(count) == count + 1

\* the parse without its fallback
AgentToolKwargs_Raising(tool_args) == JsonLoads(tool_args)

\* json.loads(tool_args) if tool_args else {}, {} on JSONDecodeError;
\* ok stays TRUE because the error is caught
AgentToolKwargs(tool_args) ==
    IF tool_args = <<>> THEN [ok |-> TRUE, val |-> <<>>]
    ELSE IF JsonLoads(tool_args).ok THEN JsonLoads(tool_args)
    ELSE [ok |-> TRUE, val |-> <<>>]

\* the appends of a tool-call round, with the content received in the
\* stream appended first
AgentRecordRound_ContentFirst(history, a, kwargs, res) ==
    LET h0 == IF a.response_content # <<>>
              THEN AppendPlain("assistant", a.response_content, history)
              ELSE history
        h1 == AppendToChatHistory("assistant", <<>>, h0, a.tool_id, TRUE,
                                  a.tool_name, JsonDumps(kwargs))
    IN  AppendToChatHistory("tool", res, h1, a.tool_id, FALSE, NONE, NONE)

\* a round recorded by its tool-call message alone
AgentRecordRound_CallOnly(history, a, kwargs, res) ==
    AppendToChatHistory("assistant", <<>>, history, a.tool_id, TRUE, a.tool_name,
                        JsonDumps(kwargs))

\* the two appends that record a tool-call round: lines 326-342
AgentRecordRound(history, a, kwargs, res) ==
    LET h1 == AppendToChatHistory("assistant", <<>>, history, a.tool_id, TRUE,
                                  a.tool_name, JsonDumps(kwargs))
    IN  AppendToChatHistory("tool", res, h1, a.tool_id, FALSE, NONE, NONE)

\* the loop going on without the user's answer
AfterExecutePc_NoWait(res) == "loop"

\* the loop asking the user after every tool
AfterExecutePc_AlwaysWait(res) == "awaiting"

\* if result.startswith('[USER_FEEDBACK_REQUESTED]'): Prompt.ask blocks
AfterExecutePc(res) == IF StartsWith(res, MARKER) THEN "awaiting" ELSE "loop"

\* question = result.replace('[USER_FEEDBACK_REQUESTED]', '').strip()
FeedbackQuestion(res) == Strip(Remove(res, MARKER))

\* the tool result without the user's words
UserResponseResult_Lost(user_response) == <<"User response: ">>

\* result = f'User response: {user_response}'
UserResponseResult(user_response) == <<"User response: ">> \o user_response

\* client.chat.completions.create(...) returns a stream
AgentSubmit ==
    /\ program = "agent" /\ pc = "loop"
    /\ AgentBudgetLeft(tool_call_count, max_tool_calls)
    /\ pc' = "streaming"
    /\ submissions' = submissions + 1
    /\ tools_sent' = TRUE
    /\ input' = Fresh(input)
    /\ round' = NoRound
    /\ UNCHANGED <<program, chat_history, acc, result, agentLocals, sheets_context,
                   turns, rounds, invocations, pending, outcome, turn_start>>

\* client.chat.completions.create(...) raises APIError
AgentCreateAPIError ==
    /\ program = "agent" /\ pc = "loop"
    /\ AgentBudgetLeft(tool_call_count, max_tool_calls)
    /\ pc' = "returned"
    /\ outcome' = "api_error"
    /\ submissions' = submissions + 1
    /\ tools_sent' = TRUE
    /\ round' = NoRound
    /\ UNCHANGED <<program, input, chat_history, acc, result, agentLocals, sheets_context,
                   turns, rounds, invocations, pending, turn_start>>

\* reading the stream raises APIError
AgentStreamAPIError ==
    /\ program = "agent" /\ pc = "streaming"
    /\ pc' = "returned"
    /\ outcome' = "api_error"
    /\ UNCHANGED <<program, input, chat_history, acc, result, agentLocals, sheets_context,
                   turns, rounds, submissions, tools_sent, invocations, pending,
                   turn_start, round>>

\* the stream is read to its end and named no tool: lines 268-292
AgentFinalAnswer ==
    /\ program = "agent" /\ pc = "streaming"
    /\ \E stream \in AgentStreams :
         LET a == AgentAccumulate(AgentAccInit, stream)
         IN  /\ a.tool_name = NONE
             /\ input' = Seen(input, stream)
             /\ chat_history' =
                  IF a.response_content # <<>>
                  THEN AppendPlain("assistant", a.response_content, chat_history)
                  ELSE chat_history
    /\ pc' = "returned"
    /\ outcome' = "final"
    /\ UNCHANGED <<program, acc, result, agentLocals, sheets_context, turns, rounds,
                   submissions, tools_sent, invocations, pending, turn_start, round>>

\* the stream is read to its end and named a tool: lines 268-342, up to
\* Prompt.ask when the tool asks for feedback
AgentDispatch ==
    /\ program = "agent" /\ pc = "streaming"
    /\ turns + rounds < MaxSteps
    /\ \E stream \in AgentStreams, h \in HandlerBehaviours :
         LET a   == AgentAccumulate(AgentAccInit, stream)
             kw  == AgentToolKwargs(a.tool_args)
             res == ExecuteSheetsTool(sheets_context, a.tool_name, kw.val, h)
             called == HandlerCalled(sheets_context, a.tool_name, kw.val)
         IN  /\ a.tool_name # NONE
             /\ input' = Seen(input, stream)
             /\ tool_call_count' = NextToolCallCount(tool_call_count)
             /\ rounds' = rounds + 1
             /\ round' =
                  [active |-> TRUE, name |-> a.tool_name, id |-> a.tool_id,
                   args_empty |-> a.tool_args = <<>>,
                   malformed |-> ~JsonLoads(a.tool_args).ok,
                   executed |-> kw.ok, called |-> kw.ok /\ called,
                   feedback |-> kw.ok /\ StartsWith(res, MARKER),
                   content_seen |-> a.response_content # <<>>,
                   count_before |-> tool_call_count,
                   log_before |-> chat_history]
             /\ IF ~kw.ok
                THEN \* a decode error nothing catches leaves run_agent_turn
                     /\ pc' = "crashed"
                     /\ outcome' = "error"
                     /\ UNCHANGED <<chat_history, acc, tool_kwargs, invocations,
                                    pending>>
                ELSE /\ tool_kwargs' = kw.val
                     /\ invocations' = invocations + (IF called THEN 1 ELSE 0)
                     /\ outcome' = outcome
                     /\ pc' = AfterExecutePc(res)
                     /\ IF StartsWith(res, MARKER)
                        THEN /\ pending' = Append(pending, FeedbackQuestion(res))
                             /\ acc' = a
                             /\ chat_history' = chat_history
                        ELSE /\ pending' = pending
                             /\ acc' = AgentAccInit
                             /\ chat_history' =
                                  AgentRecordRound(chat_history, a, kw.val, res)
    /\ UNCHANGED <<program, result, max_tool_calls, sheets_context, turns,
                   submissions, tools_sent, turn_start>>

\* Prompt.ask returns the user's answer: lines 314-342
AgentAnswer ==
    /\ program = "agent" /\ pc = "awaiting"
    /\ \E a \in Answers :
          chat_history' =
              AgentRecordRound(chat_history, acc, tool_kwargs, UserResponseResult(a))
    /\ pending' = Tail(pending)
    /\ acc' = AgentAccInit
    /\ pc' = "loop"
    /\ UNCHANGED <<program, input, result, agentLocals, sheets_context, turns, rounds,
                   submissions, tools_sent, invocations, outcome, turn_start, round>>

\* KeyboardInterrupt inside the try block, raised where the loop waits:
\* in the create call, in a stream read or in Prompt.ask
AgentKeyboardInterrupt ==
    /\ program = "agent"
    /\ \/ pc = "loop" /\ AgentBudgetLeft(tool_call_count, max_tool_calls)
       \/ pc = "streaming"
       \/ pc = "awaiting"
    /\ pc' = "returned"
    /\ outcome' = "interrupted"
    /\ pending' = <<>>
    /\ acc' = AgentAccInit
    /\ UNCHANGED <<program, input, chat_history, result, agentLocals, sheets_context, turns,
                   rounds, submissions, tools_sent, invocations, turn_start, round>>

\* the while condition fails: lines 351-354
AgentLoopExit ==
    /\ program = "agent" /\ pc = "loop"
    /\ ~AgentBudgetLeft(tool_call_count, max_tool_calls)
    /\ pc' = "returned"
    /\ outcome' = "budget"
    /\ UNCHANGED <<program, input, chat_history, acc, result, agentLocals, sheets_context,
                   turns, rounds, submissions, tools_sent, invocations, pending,
                   turn_start, round>>

\* a follow-up question: lines 370-385
AgentFollowUp ==
    /\ program = "agent" /\ pc = "returned"
    /\ turns + rounds < MaxSteps
    /\ \E u \in UserInputs : chat_history' = AppendPlain("user", u, chat_history)
    /\ turn_start' = chat_history
    /\ turns' = turns + 1
    /\ tool_call_count' = 0
    /\ max_tool_calls' = FollowUpMaxToolCalls
    /\ tool_kwargs' = <<>>
    /\ submissions' = 0
    /\ invocations' = 0
    /\ outcome' = "none"
    /\ round' = NoRound
    /\ input' = Fresh(input)
    /\ pc' = "loop"
    /\ UNCHANGED <<program, acc, result, sheets_context, rounds, tools_sent, pending>>

\* the steps of one call of run_agent_turn
AgentTurnStep ==
    \/ AgentSubmit
    \/ AgentCreateAPIError
    \/ AgentStreamAPIError
    \/ AgentFinalAnswer
    \/ AgentDispatch
    \/ AgentAnswer
    \/ AgentKeyboardInterrupt
    \/ AgentLoopExit

NextAgent == AgentTurnStep \/ AgentFollowUp

SpecAgent == InitAgent /\ [][NextAgent]_vars

\* the transport answers, streams end and the user replies to Prompt.ask
FairSpecAgent == SpecAgent /\ WF_vars(AgentTurnStep)

(***************************************************************************)
(* run_chat_loop.                                                          *)
(***************************************************************************)
\* the fragments the first loop reads: up to and including the first one
\* that carries content
RECURSIVE Consumed(_)
Consumed(stream) ==
    IF stream = <<>> THEN 0
    ELSE IF Head(stream).has_content THEN 1
    ELSE 1 + Consumed(Tail(stream))

\* current_response after "for event in stream" of the answer phase
RECURSIVE CollectContent(_)
CollectContent(stream) ==
    IF stream = <<>> THEN <<>>
    ELSE (IF Head(stream).has_content THEN Head(stream).content ELSE <<>>)
         \o CollectContent(Tail(stream))

\* search_web(**tool_args) binds its one parameter, topic
SearchWebAccepts(kwargs) == Len(kwargs) = 1 /\ HasKey(kwargs, "topic")

\* messages.pop() of the first except APIError
AfterCreate1Error(messages) == Pop(messages)

\* the instruction left out
SyntheticUserText_Empty == <<>>

\* lines 266-272
SyntheticUserText == <<"Answer the question based on the above tool result.">>

\* a new user message: lines 153-197
ChatUserInput ==
    /\ program = "chat" /\ pc = "input"
    /\ turns < MaxTurns
    /\ \E u \in UserInputs : chat_history' = AppendPlain("user", u, chat_history)
    /\ turn_start' = chat_history
    /\ turns' = turns + 1
    /\ submissions' = 0
    /\ invocations' = 0
    /\ outcome' = "none"
    /\ round' = NoRound
    /\ acc' = ChatAccInit
    /\ input' = Fresh(input)
    /\ pc' = "create1"
    /\ UNCHANGED <<program, result, agentLocals, sheets_context, rounds, tools_sent,
                   pending>>

\* the first create call returns a stream: lines 199-206
ChatCreate1 ==
    /\ program = "chat" /\ pc = "create1"
    /\ pc' = "stream1"
    /\ submissions' = submissions + 1
    /\ tools_sent' = TRUE
    /\ input' = Fresh(input)
    /\ UNCHANGED <<program, chat_history, acc, result, agentLocals, sheets_context,
                   turns, rounds, invocations, pending, outcome, turn_start, round>>

\* the first create call raises APIError: lines 211-214
ChatCreate1APIError ==
    /\ program = "chat" /\ pc = "create1"
    /\ chat_history' = AfterCreate1Error(chat_history)
    /\ pc' = "input"
    /\ outcome' = "api_error"
    /\ submissions' = submissions + 1
    /\ tools_sent' = TRUE
    /\ UNCHANGED <<program, input, acc, result, agentLocals, sheets_context, turns, rounds,
                   invocations, pending, turn_start, round>>

\* reading a stream raises: except Exception, lines 323-325
ChatStreamError ==
    /\ program = "chat" /\ pc \in {"stream1", "stream2"}
    /\ pc' = "input"
    /\ outcome' = "error"
    /\ UNCHANGED <<program, input, chat_history, acc, result, agentLocals, sheets_context,
                   turns, rounds, submissions, tools_sent, invocations, pending,
                   turn_start, round>>

\* the first stream names no tool: both loops read the one stream and the
\* answer is appended, lines 217-231 and 292-313
ChatAnswerNoTool ==
    /\ program = "chat" /\ pc = "stream1"
    /\ \E stream \in ChatStreams :
         LET a    == ChatAccumulate(ChatAccInit, stream)
             rest == SubSeq(stream, Consumed(stream) + 1, Len(stream))
         IN  /\ a.tool_name = NONE
             /\ input' = Seen(input, stream)
             /\ chat_history' =
                  AppendPlain("assistant", CollectContent(rest), chat_history)
    /\ pc' = "input"
    /\ outcome' = "ok"
    /\ UNCHANGED <<program, acc, result, agentLocals, sheets_context, turns, rounds,
                   submissions, tools_sent, invocations, pending, turn_start, round>>

\* the first stream names a tool: lines 217-272, up to the second create
ChatToolRound ==
    /\ program = "chat" /\ pc = "stream1"
    /\ \E stream \in ChatStreams, h \in HandlerBehaviours :
         LET a      == ChatAccumulate(ChatAccInit, stream)
             parsed == JsonLoads(a.tool_args)
             isWeb  == a.tool_name = "search_web"
             \* json.loads, the call binding or the handler raises
             raised == \/ ~parsed.ok
                       \/ isWeb /\ (~SearchWebAccepts(parsed.val) \/ h.raises)
             res    == IF isWeb /\ ~raised THEN Bound(h.out) ELSE result
             h1     == AppendToChatHistory("assistant", <<>>, chat_history,
                                           a.tool_id, TRUE, a.tool_name,
                                           JsonDumps(parsed.val))
             h2     == AppendToChatHistory("tool", res.val, h1, a.tool_id, FALSE,
                                           NONE, NONE)
             h3     == AppendPlain("user", SyntheticUserText, h2)
         IN  /\ a.tool_name # NONE
             /\ input' = Seen(input, stream)
             /\ rounds' = rounds + 1
             /\ acc' = a
             /\ round' =
                  [active |-> TRUE, name |-> a.tool_name, id |-> a.tool_id,
                   args_empty |-> a.tool_args = <<>>,
                   malformed |-> ~parsed.ok,
                   executed |-> parsed.ok /\ isWeb /\ SearchWebAccepts(parsed.val),
                   called |-> parsed.ok /\ isWeb /\ SearchWebAccepts(parsed.val),
                   feedback |-> FALSE,
                   content_seen |-> a.broke,
                   count_before |-> 0,
                   log_before |-> chat_history]
             /\ invocations' = invocations +
                  (IF parsed.ok /\ isWeb /\ SearchWebAccepts(parsed.val) THEN 1 ELSE 0)
             /\ result' = res
             /\ IF raised
                THEN /\ chat_history' = chat_history
                     /\ pc' = "input"
                     /\ outcome' = "error"
                ELSE IF ~res.bound
                THEN \* str(result) of a local never assigned
                     /\ chat_history' = h1
                     /\ pc' = "input"
                     /\ outcome' = "error"
                ELSE /\ chat_history' = h3
                     /\ pc' = "create2"
                     /\ outcome' = outcome
    /\ UNCHANGED <<program, agentLocals, sheets_context, turns, submissions,
                   tools_sent, pending, turn_start>>

\* the second create call returns a stream: lines 281-287
ChatCreate2 ==
    /\ program = "chat" /\ pc = "create2"
    /\ pc' = "stream2"
    /\ submissions' = submissions + 1
    /\ tools_sent' = TRUE
    /\ input' = Fresh(input)
    /\ UNCHANGED <<program, chat_history, acc, result, agentLocals, sheets_context,
                   turns, rounds, invocations, pending, outcome, turn_start, round>>

\* the second create call raises APIError: no handler but except Exception
ChatCreate2APIError ==
    /\ program = "chat" /\ pc = "create2"
    /\ pc' = "input"
    /\ outcome' = "api_error"
    /\ submissions' = submissions + 1
    /\ tools_sent' = TRUE
    /\ UNCHANGED <<program, input, chat_history, acc, result, agentLocals, sheets_context,
                   turns, rounds, invocations, pending, turn_start, round>>

\* the stream of the second submission leading to another submission
ChatAnswerAfterTool_Resubmit ==
    /\ program = "chat" /\ pc = "stream2"
    /\ pc' = "create2"
    /\ UNCHANGED <<program, input, chat_history, acc, result, agentLocals, sheets_context,
                   turns, rounds, submissions, tools_sent, invocations, pending,
                   outcome, turn_start, round>>

\* the answer after a tool round: lines 292-313 on the second stream
ChatAnswerAfterTool ==
    /\ program = "chat" /\ pc = "stream2"
    /\ \E stream \in ChatStreams :
         /\ input' = Seen(input, stream)
         /\ chat_history' =
              AppendPlain("assistant", CollectContent(stream), chat_history)
    /\ pc' = "input"
    /\ outcome' = "ok"
    /\ UNCHANGED <<program, acc, result, agentLocals, sheets_context, turns, rounds,
                   submissions, tools_sent, invocations, pending, turn_start, round>>

\* 'exit' or 'quit' at the prompt, or KeyboardInterrupt anywhere: break
ChatExit ==
    /\ program = "chat" /\ pc # "exited"
    /\ input' = Fresh(input)
    /\ pc' = "exited"
    /\ UNCHANGED <<program, chat_history, acc, result, agentLocals, sheets_context,
                   turns, rounds, submissions, tools_sent, invocations, pending,
                   outcome, turn_start, round>>

NextChat ==
    \/ ChatUserInput
    \/ ChatCreate1
    \/ ChatCreate1APIError
    \/ ChatStreamError
    \/ ChatAnswerNoTool
    \/ ChatToolRound
    \/ ChatCreate2
    \/ ChatCreate2APIError
    \/ ChatAnswerAfterTool
    \/ ChatExit

SpecChat == InitChat /\ [][NextChat]_vars

Next == NextAgent \/ NextChat

Spec == Init /\ [][Next]_vars

SpecObserved == InitObserved /\ [][Next]_vars

(***************************************************************************)
(* The stream accumulation on its own: one tool call whose name arrives    *)
(* in one fragment and whose argument string arrives in pieces.            *)
(*   input.full  the argument string      input.rest  what is still to be  *)
(*   input.sent  the pieces sent so far               sent                 *)
(***************************************************************************)
ExampleArgs == <<"{", QUOTE, "top", "ic", QUOTE, ":", QUOTE, "weather", QUOTE, "}">>

\* '{"top', 'ic":"weather', '"}'
ExampleSplit ==
    << <<"{", QUOTE, "top">>, <<"ic", QUOTE, ":", QUOTE, "weather">>, <<QUOTE, "}">> >>

ArgStrings ==
    {ExampleArgs,
     <<"{", QUOTE, "question", QUOTE, ":", " ", QUOTE, "what?", QUOTE, "}">>,
     <<"{", QUOTE, "topic", QUOTE, ":", " ">>,
     <<"{", " ", "}">>,
     <<>>}

\* the loops not otherwise running
Idle ==
    /\ chat_history = <<>>
    /\ result = Unbound
    /\ tool_kwargs = <<>>
    /\ tool_call_count = 0
    /\ max_tool_calls = 0
    /\ sheets_context = [reader |-> NONE, analyzer |-> NONE]
    /\ turns = 0
    /\ rounds = 0
    /\ submissions = 0
    /\ tools_sent = FALSE
    /\ invocations = 0
    /\ pending = <<>>
    /\ outcome = "none"
    /\ turn_start = <<>>
    /\ round = NoRound

idleVars ==
    <<result, tool_kwargs, tool_call_count, max_tool_calls, sheets_context, turns,
      rounds, submissions, tools_sent, invocations, pending, outcome, turn_start,
      round>>

InitAccum ==
    /\ program \in {"accum_agent", "accum_chat"}
    /\ pc = "name"
    /\ acc = (IF program = "accum_agent" THEN AgentAccInit ELSE ChatAccInit)
    /\ \E s \in ArgStrings : input = [full |-> s, rest |-> s, sent |-> <<>>]
    /\ Idle

\* the loop of the program under check reads one fragment
AccumStep(a, event) ==
    IF program = "accum_agent" THEN AgentAccumStep(a, event)
    ELSE ChatAccumStep(a, event)

\* the fragment that introduces the call
AccumName ==
    /\ program \in {"accum_agent", "accum_chat"} /\ pc = "name"
    /\ acc' = AccumStep(acc, NameFragment("search_web", "call_1"))
    /\ pc' = "args"
    /\ UNCHANGED <<program, input, chat_history, idleVars>>

\* the next piece of the argument string, the last piece taking the rest
AccumPiece ==
    /\ program \in {"accum_agent", "accum_chat"} /\ pc = "args"
    /\ Len(input.sent) < MaxFrags
    /\ \E k \in 0..Len(input.rest) :
         /\ Len(input.sent) = MaxFrags - 1 => k = Len(input.rest)
         /\ acc' = AccumStep(acc, ArgsFragment(SubSeq(input.rest, 1, k)))
         /\ input' = [input EXCEPT
                        !.rest = SubSeq(input.rest, k + 1, Len(input.rest)),
                        !.sent = Append(input.sent, SubSeq(input.rest, 1, k))]
    /\ UNCHANGED <<program, pc, chat_history, idleVars>>

\* end of the stream
AccumEnd ==
    /\ program \in {"accum_agent", "accum_chat"} /\ pc = "args"
    /\ input.rest = <<>> /\ Len(input.sent) >= 1
    /\ pc' = "drained"
    /\ UNCHANGED <<program, input, acc, chat_history, idleVars>>

NextAccum == AccumName \/ AccumPiece \/ AccumEnd

SpecAccum == InitAccum /\ [][NextAccum]_vars

(***************************************************************************)
(* append_to_chat_history on its own: any call on any log built by calls.  *)
(*   input.before  the log handed to the call, input.call its arguments    *)
(***************************************************************************)
NoCall ==
    [role |-> NONE, content |-> <<>>, tool_call_id |-> NONE,
     tool_identifier |-> FALSE]

InitAppend ==
    /\ program = "append"
    /\ pc = "call"
    /\ acc = AgentAccInit
    /\ input = [before |-> <<>>, call |-> NoCall]
    /\ Idle

AppendCall ==
    /\ program = "append"
    /\ Len(chat_history) < MaxLogLen
    /\ \E role \in {"user", "assistant", "tool"}, content \in {<<>>, <<"x">>},
          tool_call_id \in {NONE, "call_1", "call_2"}, tool_identifier \in BOOLEAN :
         /\ chat_history' =
              AppendToChatHistory(role, content, chat_history, tool_call_id,
                                  tool_identifier, "search_web", "{}")
         /\ input' = [before |-> chat_history,
                      call |-> [role |-> role, content |-> content,
                                tool_call_id |-> tool_call_id,
                                tool_identifier |-> tool_identifier]]
    /\ UNCHANGED <<program, pc, acc, idleVars>>

NextAppend == AppendCall

SpecAppend == InitAppend /\ [][NextAppend]_vars

(***************************************************************************)
(* Two calls of run_agent_loop interleaved in one process (two threads of  *)
(* an embedding), each with its own workbook, log and counter.             *)
(* _sheets_context is a global of the module sheets/tools.py, so both      *)
(* calls write it and both read it.                                        *)
(*   sheets_context   the module global                                    *)
(*   input[s]   session s: its position, its log, its counter, and         *)
(*              ran_on, the reader each of its tool executions used        *)
(***************************************************************************)
Sessions == {"s1", "s2"}

\* the reader run_agent_loop of session s was given
Workbook(s) == IF s = "s1" THEN "book_1" ELSE "book_2"

\* set_sheets_context(reader=..., analyzer=..., ...)
SetSheetsContext(reader, analyzer) == [reader |-> reader, analyzer |-> analyzer]

\* _tool_list_sheets(reader): the structure of the reader's workbook
ToolListSheets(reader) == <<"=== Workbook Structure ===", reader>>

NoSession ==
    [pc |-> "idle", chat_history |-> <<>>, tool_call_count |-> 0, ran_on |-> <<>>]

InitSessions ==
    /\ program = "sessions"
    /\ pc = "run"
    /\ acc = AgentAccInit
    /\ input = [s \in Sessions |-> NoSession]
    /\ Idle

\* run_agent_loop of session s up to its first call of run_agent_turn
SessionStart(s) ==
    /\ program = "sessions" /\ input[s].pc = "idle"
    /\ sheets_context' = SetSheetsContext(Workbook(s), Workbook(s))
    /\ input' = [input EXCEPT
                   ![s].pc = "loop",
                   ![s].chat_history =
                       AppendPlain("user", InitialPrompt,
                                   AppendPlain("system", SystemText, <<>>))]
    /\ UNCHANGED <<program, pc, acc, chat_history, result, tool_kwargs, tool_call_count,
                   max_tool_calls, turns, rounds, submissions, tools_sent,
                   invocations, pending, outcome, turn_start, round>>

\* a round of session s in which the model calls list_sheets
SessionToolRound(s) ==
    /\ program = "sessions" /\ input[s].pc = "loop"
    /\ input[s].tool_call_count < MaxSessionRounds
    /\ LET a == [AgentAccInit EXCEPT !.tool_name = "list_sheets", !.tool_id = "call_1"]
           h == [raises |-> FALSE, out |-> ToolListSheets(sheets_context.reader)]
           res == ExecuteSheetsTool(sheets_context, a.tool_name, <<>>, h)
       IN  input' = [input EXCEPT
                       ![s].tool_call_count = NextToolCallCount(@),
                       ![s].chat_history = AgentRecordRound(@, a, <<>>, res),
                       ![s].ran_on = Append(@, sheets_context.reader)]
    /\ UNCHANGED <<program, pc, acc, chat_history, idleVars>>

\* the final answer of session s
SessionFinalAnswer(s) ==
    /\ program = "sessions" /\ input[s].pc = "loop"
    /\ \E c \in ContentPieces :
         input' = [input EXCEPT
                     ![s].pc = "returned",
                     ![s].chat_history = AppendPlain("assistant", c, @)]
    /\ UNCHANGED <<program, pc, acc, chat_history, idleVars>>

SessionStep(s) == SessionStart(s) \/ SessionToolRound(s) \/ SessionFinalAnswer(s)

NextSessions == \E s \in Sessions : SessionStep(s)

SpecSessions == InitSessions /\ [][NextSessions]_vars

(***************************************************************************)
(* chunk_text on its own (semantic_engine.py), one iteration of its while  *)
(* loop per step.  A text is the sequence of its characters.               *)
(*   input.text, input.chunk_size, input.overlap   the arguments           *)
(*   input.start, input.documents                  the locals              *)
(***************************************************************************)
Alphabet == <<"a", "b", "c", "d", "e", "f", "g", "h">>

Texts == {SubSeq(Alphabet, 1, n) : n \in 0..MaxTextLen}

Min(a, b) == IF a < b THEN a ELSE b
Max(a, b) == IF a > b THEN a ELSE b

\* the position a slice bound stands for: a negative bound counts from the
\* end of the text, and bounds are clipped to the text
SliceBound(i, n) == IF i < 0 THEN Max(i + n, 0) ELSE Min(i, n)

\* text[start:end]
Slice(text, start, end) ==
    SubSeq(text, SliceBound(start, Len(text)) + 1, SliceBound(end, Len(text)))

\* the model follows a call for at most this many iterations; a call that
\* returns makes at most len(text) of them
MaxIterations == MaxTextLen + 1

InitChunk ==
    /\ program = "chunk"
    /\ pc = "loop"
    /\ acc = AgentAccInit
    /\ \E text \in Texts, chunk_size \in 1..MaxChunkSize, overlap \in 0..MaxChunkSize :
         input = [text |-> text, chunk_size |-> chunk_size, overlap |-> overlap,
                  start |-> 0, documents |-> <<>>]
    /\ Idle

\* the next chunk starting where this one ends
NextStart_NoOverlap(start, chunk_size, overlap) == start + chunk_size

\* start += chunk_size - overlap
NextStart(start, chunk_size, overlap) == start + chunk_size - overlap

\* one iteration of "while start < text_length"
ChunkIterate ==
    /\ program = "chunk" /\ pc = "loop"
    /\ input.start < Len(input.text)
    /\ Len(input.documents) < MaxIterations
    /\ LET end   == Min(input.start + input.chunk_size, Len(input.text))
           chunk == Slice(input.text, input.start, end)
       IN  input' = [input EXCEPT
                       !.documents = Append(@, [text |-> chunk]),
                       !.start = NextStart(@, input.chunk_size, input.overlap)]
    /\ UNCHANGED <<program, pc, acc, chat_history, idleVars>>

\* the loop condition fails: return documents
ChunkReturn ==
    /\ program = "chunk" /\ pc = "loop"
    /\ ~(input.start < Len(input.text))
    /\ pc' = "returned"
    /\ UNCHANGED <<program, input, acc, chat_history, idleVars>>

NextChunk == ChunkIterate \/ ChunkReturn

SpecChunk == InitChunk /\ [][NextChunk]_vars

(***************************************************************************)
(* Properties.                                                             *)
(***************************************************************************)
Last(log) == log[Len(log)]

\* the messages a step or a round added to the log
Added(before, after) == SubSeq(after, Len(before) + 1, Len(after))

\* C1: split-invariance of the accumulation.  A stream that carries the
\* tool name in one fragment and the argument string in any number of
\* pieces yields the name and the parsed arguments of the stream that
\* carries the argument string in one piece, in run_agent_turn and in
\* run_chat_loop; the pieces '{"top', 'ic":"weather', '"}' after the name
\* search_web yield search_web with {topic: weather}.
C1_SplitInvariance ==
    pc = "drained" =>
        LET unsplit_stream ==
                <<NameFragment("search_web", "call_1"), ArgsFragment(input.full)>>
        IN  /\ program = "accum_agent" =>
                LET unsplit == AgentAccumulate(AgentAccInit, unsplit_stream)
                IN  /\ acc.tool_name = unsplit.tool_name
                    /\ AgentToolKwargs(acc.tool_args)
                         = AgentToolKwargs(unsplit.tool_args)
            /\ program = "accum_chat" =>
                LET unsplit == ChatAccumulate(ChatAccInit, unsplit_stream)
                IN  /\ acc.tool_name = unsplit.tool_name
                    /\ JsonLoads(acc.tool_args) = JsonLoads(unsplit.tool_args)
            /\ input.full = ExampleArgs =>
                /\ acc.tool_name = "search_web"
                /\ JsonLoads(acc.tool_args)
                     = [ok |-> TRUE, val |-> <<[k |-> "topic", v |-> "weather"]>>]

\* the example stream of C1 has been read to its end by run_chat_loop
C1_Witness ==
    /\ program = "accum_chat" /\ pc = "drained"
    /\ input.sent = ExampleSplit
    /\ JsonLoads(acc.tool_args).ok

\* C2: run_agent_turn terminates, and a turn makes at most
\* max_tool_calls + 1 create calls, whatever the transport streams; in
\* particular when every stream names a tool.
C2_Terminates ==
    /\ [](program = "agent" => submissions <= max_tool_calls + 1)
    /\ [](pc # "returned" => <>(pc = "returned"))

\* a turn in which every stream named a tool has used up its budget
C2_Witness ==
    /\ program = "agent" /\ pc = "returned" /\ outcome = "budget"
    /\ max_tool_calls = 2 /\ tool_call_count = 2 /\ rounds = 2

\* C3 as stated: once the budget is used up the loop submits once more,
\* without tools.
C3_Original ==
    (program = "agent" /\ outcome = "budget" /\ max_tool_calls >= 1) =>
        (submissions = max_tool_calls + 1 /\ ~tools_sent)

\* C3 as amended: once max_tool_calls tool-call rounds are done,
\* run_agent_turn returns with no further create call and no answer
\* appended, and every create call it made carried the tools; with
\* max_tool_calls = 2 it made two.  In run_chat_loop, whose turn allows one
\* tool-call round, the round is followed by exactly one more create call,
\* with the tools still enabled, and what that stream carries is appended
\* as the final answer whatever it is.
C3_BudgetExhausted ==
    /\ (program = "agent" /\ outcome = "budget") =>
          /\ pc = "returned"
          /\ tool_call_count = max_tool_calls
          /\ submissions = max_tool_calls
          /\ submissions > 0 => tools_sent /\ Last(chat_history).role = "tool"
    /\ (program = "chat" /\ round.active /\ outcome = "ok") =>
          /\ submissions = 2
          /\ tools_sent
          /\ Last(chat_history).role = "assistant"
          /\ ~IsToolCallMessage(Last(chat_history))

\* two tool-call rounds have used up a budget of two
C3_Witness ==
    /\ program = "agent" /\ outcome = "budget"
    /\ max_tool_calls = 2 /\ submissions = 2
    /\ Len(Added(turn_start, chat_history)) = 5

\* C4 as stated: a buffer that is not valid JSON ends the session in error
\* with no handler invoked and nothing further submitted.
C4_Original ==
    (round.active /\ round.malformed) =>
        /\ ~round.executed
        /\ outcome = "error"
        /\ chat_history = round.log_before

\* C4 as amended: in run_chat_loop a buffer that is not valid JSON makes
\* json.loads raise; the loop's handler catches it, no tool is invoked,
\* nothing is appended, no further create call is made in the turn and the
\* loop goes back to the prompt.  In run_agent_turn the decode error is
\* caught and the arguments become the empty object: execute_sheets_tool is
\* invoked with no arguments, the round is recorded with the arguments "{}"
\* and the loop goes on.
C4_MalformedArguments ==
    /\ (program = "chat" /\ round.active /\ round.malformed) =>
          /\ ~round.executed
          /\ invocations = 0
          /\ outcome = "error"
          /\ pc \in {"input", "exited"}
          /\ chat_history = round.log_before
          /\ submissions = 1
    /\ (program = "agent" /\ round.active /\ round.malformed) =>
          /\ round.executed
          /\ tool_kwargs = <<>>
          /\ pc \in {"loop", "returned"}
          /\ outcome # "error"
          /\ Len(Added(round.log_before, chat_history)) = 2
          /\ chat_history[Len(round.log_before) + 1].tool_calls[1].arguments = "{}"
          /\ Last(chat_history).role = "tool"

\* run_agent_turn has called a handler for a round whose buffer was cut
\* short
C4_Witness ==
    /\ program = "agent" /\ round.active
    /\ round.malformed /\ ~round.args_empty
    /\ round.name = "list_sheets" /\ round.called

\* the log up to, and without, its most recent user message
UpToLastUser(log) ==
    LET users == {i \in 1..Len(log) : log[i].role = "user"}
    IN  IF users = {} THEN log
        ELSE SubSeq(log, 1, (CHOOSE i \in users : \A j \in users : j <= i) - 1)

\* C5: a create call that fails with an APIError removes the most recent
\* user message from the log and ends the turn, at every create call of
\* both loops.
C5_Original ==
    [][(outcome' = "api_error" /\ outcome # "api_error") =>
          /\ chat_history' = UpToLastUser(chat_history)
          /\ pc' \in {"input", "returned"}]_vars

\* C6: every tool message of the log directly follows an assistant message
\* that carries a tool call with the tool message's tool_call_id.
C6_ToolMessageFollowsItsCall ==
    program \in {"agent", "chat"} =>
        \A i \in 1..Len(chat_history) :
            chat_history[i].role = "tool" =>
                /\ i > 1
                /\ chat_history[i - 1].role = "assistant"
                /\ \E j \in 1..Len(chat_history[i - 1].tool_calls) :
                      chat_history[i - 1].tool_calls[j].id
                          = chat_history[i].tool_call_id

\* both loops have recorded a tool message
C6_Witness ==
    /\ program \in {"agent", "chat"}
    /\ \E i \in 1..Len(chat_history) :
          chat_history[i].role = "tool" /\ chat_history[i].tool_call_id = "call_2"

\* the call appends a tool message no tool call of the message before it
\* announces
MismatchedToolCall ==
    /\ input.call.role = "tool" /\ ~input.call.tool_identifier
    /\ \/ input.before = <<>>
       \/ \A j \in 1..Len(Last(input.before).tool_calls) :
             Last(input.before).tool_calls[j].id # input.call.tool_call_id

\* C7 as stated: append_to_chat_history rejects such a call and leaves the
\* log as it was.
C7_Original == MismatchedToolCall => chat_history = input.before

\* C7 as amended: append_to_chat_history validates nothing.  Every call
\* appends exactly one message with the role, the content and (for a
\* message that is not a tool-call message) the tool_call_id it was given,
\* also when a tool message matches no tool call of the message before it.
C7_AppendAccepts ==
    (program = "append" /\ input.call.role # NONE) =>
        /\ Len(chat_history) = Len(input.before) + 1
        /\ IsPrefix(input.before, chat_history)
        /\ Last(chat_history).role = input.call.role
        /\ Last(chat_history).content = input.call.content
        /\ ~input.call.tool_identifier =>
              Last(chat_history).tool_call_id = input.call.tool_call_id
        /\ input.call.tool_identifier =>
              Last(chat_history).tool_calls[1].id = input.call.tool_call_id

\* a tool message keyed call_2 was appended after the call call_1
C7_Witness ==
    /\ program = "append" /\ MismatchedToolCall
    /\ input.before # <<>>
    /\ IsToolCallMessage(Last(input.before))
    /\ Last(chat_history).role = "tool"
    /\ Last(chat_history).tool_call_id = "call_2"

\* the user's answer has been recorded for the round that asked
FeedbackAnswered == program = "agent" /\ round.feedback /\ pc = "loop"

\* what a feedback round has made of the log once it is answered
FeedbackRecorded ==
    LET added == Added(round.log_before, chat_history)
    IN  /\ Len(added) = 2
        /\ IsToolCallMessage(added[1])
        /\ added[1].tool_calls[1].id = round.id
        /\ added[1].tool_calls[1].name = "request_user_feedback"
        /\ added[2].role = "tool"
        /\ added[2].tool_call_id = round.id
        /\ \E a \in Answers : added[2].content = <<"User response: ">> \o a
        /\ pending = <<>>
        /\ tool_call_count = round.count_before + 1

\* C8 as stated: after the answer the loop always goes on to the next
\* create call.
C8_Original ==
    FeedbackAnswered =>
        FeedbackRecorded /\ AgentBudgetLeft(tool_call_count, max_tool_calls)

\* C8 as amended: a request_user_feedback call with a non-empty question
\* makes the loop wait for the user with nothing appended; the answer
\* appends the tool-call message and exactly one tool message, keyed by the
\* call's id and containing the answer; the counter has gone up by exactly
\* one for the round; the loop then makes its next create call if
\* tool_call_count < max_tool_calls and otherwise returns without one.
C8_FeedbackResumes ==
    /\ (program = "agent" /\ pc = "awaiting") =>
          /\ round.feedback /\ round.name = "request_user_feedback"
          /\ pending = << <<DictGet(tool_kwargs, "question")>> >>
          /\ chat_history = round.log_before
          /\ tool_call_count = round.count_before + 1
    /\ FeedbackAnswered => FeedbackRecorded
    /\ (program = "agent" /\ round.feedback /\ outcome = "budget") =>
          /\ FeedbackRecorded
          /\ submissions = max_tool_calls

\* the answer is in the log and the budget allows the next create call
C8_Witness ==
    /\ FeedbackAnswered
    /\ Last(chat_history).content = <<"User response: ", "it's about sales">>
    /\ AgentBudgetLeft(tool_call_count, max_tool_calls)

\* C9: while a feedback question is pending the loop makes no create call
\* and appends nothing until the answer arrives, and at most one question
\* is pending at any time.
C9_SuspendedWhilePending ==
    /\ [][pending # <<>> =>
            /\ submissions' = submissions
            /\ chat_history' # chat_history =>
                  /\ pending' = <<>>
                  /\ Last(chat_history').role = "tool"
                  /\ \E a \in Answers :
                        Last(chat_history').content = UserResponseResult(a)]_vars
    /\ [](Len(pending) <= 1)

\* the loop waits for the answer to the question of a second round
C9_Witness ==
    /\ program = "agent" /\ pc = "awaiting"
    /\ pending = << <<"what?">> >>
    /\ rounds = 2

\* C10: a tool-call round appends no assistant text.  Every message that
\* carries a tool call has empty content, and the first message a
\* tool-call round appends is the tool-call message, also when its stream
\* carried content.
C10_NoFreeTextInToolRound ==
    program \in {"agent", "chat"} =>
        /\ \A i \in 1..Len(chat_history) :
              IsToolCallMessage(chat_history[i]) => chat_history[i].content = <<>>
        /\ (round.active /\ Len(chat_history) > Len(round.log_before)) =>
              IsToolCallMessage(chat_history[Len(round.log_before) + 1])

\* a round whose stream carried content before the tool name is recorded
C10_Witness ==
    /\ program = "agent" /\ round.active /\ round.content_seen
    /\ Len(chat_history) > Len(round.log_before)

\* a step that has read a stream to its end (or to the break)
StreamRead == ~input.read /\ input'.read

\* C11: a round whose stream carries no tool name is a final answer, also
\* when the stream carries tool-call fragments without a name next to
\* content: the step that reads it calls no handler, counts no tool-call
\* round, appends at most one message, a plain assistant message, and ends
\* the turn as answered.
C11_NamelessIsFinalAnswer ==
    [][(StreamRead /\ input'.calls = 0) =>
          /\ invocations' = invocations
          /\ rounds' = rounds
          /\ outcome' \in {"final", "ok"}
          /\ pc' \in {"returned", "input"}
          /\ Len(Added(chat_history, chat_history')) <= 1
          /\ \A i \in 1..Len(Added(chat_history, chat_history')) :
                LET m == Added(chat_history, chat_history')[i]
                IN  m.role = "assistant" /\ ~IsToolCallMessage(m)
                    /\ m.tool_call_id = NONE]_vars

\* run_agent_turn has answered from a stream with arguments fragments, no
\* name, and content
C11_Witness ==
    /\ program = "agent" /\ pc = "returned" /\ outcome = "final"
    /\ input.read /\ input.nameless /\ input.content # <<>>
    /\ invocations = 0
    /\ Last(chat_history).role = "assistant"

\* a step that has read a stream and ended the turn as answered
FinalAnswerRound == StreamRead /\ outcome' \in {"final", "ok"}

\* C12: a final-answer round (here: one whose stream carries content)
\* appends exactly one assistant message, whose content is all the content
\* fragments of the round's stream in order, and ends the turn with no
\* further create call.
C12_Original ==
    [][(FinalAnswerRound /\ input'.content # <<>>) =>
          /\ Len(Added(chat_history, chat_history')) = 1
          /\ Last(chat_history').role = "assistant"
          /\ Last(chat_history').content = input'.content
          /\ submissions' = submissions
          /\ pc' \in {"returned", "input"}]_vars

\* C13: the first content fragment of a round that also named a tool is
\* kept and put in front of the answer the next round produces: once
\* run_chat_loop has answered after such a round, the answer in the log
\* begins with that fragment.
C13_Original ==
    (program = "chat" /\ round.active /\ round.content_seen /\ outcome = "ok") =>
        /\ acc.dangling_stream_content # <<>>
        /\ Last(chat_history).role = "assistant"
        /\ IsPrefix(acc.dangling_stream_content, Last(chat_history).content)

\* a step that has read a stream and dispatched the tool it names
ToolCallRound == StreamRead /\ rounds' = rounds + 1

\* C14: within one stream the tool name and the call id are set once, by
\* the first fragment that carries a name; the round therefore runs under
\* the name and the id of the first such fragment of its stream.
C14_Original ==
    [][ToolCallRound => (round'.name = input'.name /\ round'.id = input'.id)]_vars

\* C15: when a stream carries the fragments of two or more calls, the round
\* dispatches one tool, with the name, the id and the arguments of the
\* first call only.
C15_Original ==
    [][(ToolCallRound /\ input'.calls >= 2) =>
          /\ invocations' <= invocations + 1
          /\ round'.name = input'.name
          /\ round'.id = input'.id
          /\ program = "agent" =>
                tool_kwargs' = AgentToolKwargs(input'.arguments).val
          /\ program = "chat" =>
                round'.malformed = ~JsonLoads(input'.arguments).ok]_vars

\* the round ran under a name the loop's manifest does not hold
UnknownToolRound ==
    /\ round.active
    /\ program = "agent" => round.name \notin SheetsToolNames
    /\ program = "chat" => round.name \notin ChatManifestNames

\* C16: a tool name that is not registered does not abort anything: the
\* invocation yields an error text, the text is appended as the tool
\* message of the call, and the turn goes on (here: for a round whose
\* arguments parse).
C16_Original ==
    (UnknownToolRound /\ ~round.malformed) =>
        LET added == Added(round.log_before, chat_history)
        IN  /\ outcome # "error"
            /\ Len(added) >= 2
            /\ IsToolCallMessage(added[1])
            /\ added[2].role = "tool"
            /\ added[2].tool_call_id = round.id
            /\ StartsWith(added[2].content, "Error: Unknown tool: ")

\* C17: a handler that raises does not reach the loop: the invocation
\* returns "Error executing <name>: <message>", so every round that called
\* a handler (and asked the user nothing) appends the tool message of its
\* call, with the handler's text or with that error text, and does not end
\* in an error.
C17_Original ==
    (round.active /\ round.called /\ ~round.feedback) =>
        LET added == Added(round.log_before, chat_history)
        IN  /\ outcome # "error"
            /\ Len(added) >= 2
            /\ added[2].role = "tool"
            /\ added[2].tool_call_id = round.id
            /\ \E h \in HandlerBehaviours :
                  added[2].content = Handled(round.name, h)

\* the round ran a tool of the manifest on an argument object that lacks
\* a parameter the tool's schema requires
LacksRequired ==
    /\ round.active
    /\ program = "agent" =>
          /\ round.name \in SheetsToolNames
          /\ \E q \in SheetsRequired(round.name) : ~HasKey(tool_kwargs, q)
    /\ program = "chat" =>
          /\ round.name \in ChatManifestNames
          /\ JsonLoads(acc.tool_args).ok
          /\ \E q \in ChatRequired(round.name) :
                ~HasKey(JsonLoads(acc.tool_args).val, q)

\* C18: a call that lacks a required parameter does not reach the handler;
\* the round gets an error text as the result of the call instead.
C18_Original ==
    LacksRequired =>
        LET added == Added(round.log_before, chat_history)
        IN  /\ ~round.called
            /\ outcome # "error"
            /\ Len(added) >= 2
            /\ added[2].role = "tool"
            /\ added[2].tool_call_id = round.id
            /\ \E q \in {"sheet_name", "question", "sheet_name and column_name", "topic"} :
                  \/ added[2].content = <<"Error: " \o q \o " is required">>
                  \/ added[2].content = <<"Error: " \o q \o " are required">>

\* a tool-call round that asked the user nothing has run to its end
RoundCompleted ==
    /\ round.active /\ ~round.feedback
    /\ program = "agent" => round.executed
    /\ program = "chat" => (pc = "create2" \/ submissions >= 2)

\* C19 as stated: every such round leaves three messages, the third being
\* the synthetic user message.
C19_Original ==
    RoundCompleted =>
        LET added == Added(round.log_before, chat_history)
        IN  /\ Len(added) >= 3
            /\ IsToolCallMessage(added[1])
            /\ added[2].role = "tool" /\ added[2].tool_call_id = round.id
            /\ added[3].role = "user"

\* C19 as amended: a completed tool-call round of run_chat_loop appends, in
\* this order, the assistant message with the tool call, the tool message
\* with the text of result under the same id, and the user message "Answer
\* the question based on the above tool result."; the second create call is
\* made after the three.  A completed round of run_agent_turn that asks no
\* feedback appends the first two only, and the loop then goes back to its
\* head.
C19_RoundAppends ==
    RoundCompleted =>
        LET added == Added(round.log_before, chat_history)
        IN  /\ Len(added) >= 2
            /\ IsToolCallMessage(added[1])
            /\ added[1].content = <<>>
            /\ added[1].tool_calls[1].id = round.id
            /\ added[1].tool_calls[1].name = round.name
            /\ added[2].role = "tool"
            /\ added[2].tool_call_id = round.id
            /\ program = "chat" =>
                  /\ Len(added) >= 3
                  /\ added[2].content = result.val
                  /\ added[3] = PlainMessage("user",
                        <<"Answer the question based on the above tool result.">>)
                  /\ pc = "create2" => (Len(added) = 3 /\ submissions = 1)
            /\ program = "agent" =>
                  /\ Len(added) = 2
                  /\ pc \in {"loop", "returned"}

\* run_chat_loop is about to make its second create call
C19_Witness ==
    /\ program = "chat" /\ pc = "create2" /\ round.active
    /\ round.name = "search_web"
    /\ Len(Added(round.log_before, chat_history)) = 3
    /\ Last(chat_history).role = "user"

\* the tool-call rounds run_agent_turn has recorded in this turn
RoundsRecorded ==
    Cardinality({i \in (Len(turn_start) + 2)..Len(chat_history) :
                    IsToolCallMessage(chat_history[i])})

\* C20: the counter of run_agent_turn starts at 0, goes up by exactly one
\* with each tool-call round (whatever the tool, its arguments or its
\* result), is changed by no other step of the turn, and never exceeds
\* max_tool_calls.  At the loop head it equals the number of rounds the
\* turn has recorded.
C20_CounterCountsRounds ==
    /\ [][program = "agent" =>
            /\ turns' # turns => tool_call_count' = 0
            /\ (turns' = turns /\ rounds' # rounds) =>
                  tool_call_count' = tool_call_count + 1
            /\ (turns' = turns /\ rounds' = rounds) =>
                  tool_call_count' = tool_call_count]_vars
    /\ [](program = "agent" =>
            /\ tool_call_count <= max_tool_calls
            /\ turns = 1 /\ rounds = 0 => tool_call_count = 0
            /\ pc \in {"loop", "streaming"} => tool_call_count = RoundsRecorded)

\* two rounds counted: one for an unknown tool, one that asked the user
C20_Witness ==
    /\ program = "agent" /\ pc = "loop"
    /\ tool_call_count = 2 /\ max_tool_calls = 2
    /\ \E i, j \in 1..Len(chat_history) :
          /\ IsToolCallMessage(chat_history[i])
          /\ chat_history[i].tool_calls[1].name = "no_such_tool"
          /\ IsToolCallMessage(chat_history[j])
          /\ chat_history[j].tool_calls[1].name = "request_user_feedback"
          /\ chat_history[j + 1].content = <<"User response: ", "it's about sales">>


\* C21: two interleaved sessions do not interfere.  Every tool a session
\* invokes executes against that session's own workbook context, and a step
\* of one session changes neither the context the other session's tools
\* read nor the other session's log or counter.
C21_Original ==
    /\ [](program = "sessions" =>
            \A s \in Sessions : \A i \in 1..Len(input[s].ran_on) :
                input[s].ran_on[i] = Workbook(s))
    /\ [][\A s \in Sessions :
            (SessionStep(s) /\ \E t \in Sessions \ {s} : input[t].pc = "loop")
            => /\ sheets_context' = sheets_context
               /\ \A t \in Sessions \ {s} : input'[t] = input[t]]_vars

\* the rollback after a failed first submission of run_chat_loop
Rollback == program = "chat" /\ pc = "create1" /\ outcome' = "api_error"

\* C22: the log is append-only.  Every step of either loop other than the
\* rollback after a failed submission leaves the log before the step a
\* prefix of the log after it: messages keep their order and content.
C22_AppendOnly == [][~Rollback => IsPrefix(chat_history, chat_history')]_vars

\* a tool-call round and the answer after it have been appended on top of
\* the log of an earlier turn
C22_Witness ==
    /\ program \in {"agent", "chat"}
    /\ outcome \in {"ok", "final"}
    /\ turns >= 2
    /\ Len(chat_history) >= Len(turn_start) + 4
    /\ \E i \in 1..Len(chat_history) : chat_history[i].role = "tool"

\* the characters of text from position a up to position b, 0-based, b
\* excluded
Chars(text, a, b) == SubSeq(text, a + 1, b)

\* C23: for chunk_size > overlap >= 0 chunk_text returns, in order, the
\* chunks text[i*step : min(i*step + chunk_size, len(text))] with
\* step = chunk_size - overlap: each has at most chunk_size characters,
\* consecutive chunks share exactly overlap characters unless the later one
\* is cut by the end of the text, every character lies in some chunk, and
\* the empty text yields no chunks.
C23_ChunksOfText ==
    (program = "chunk" /\ pc = "returned" /\ input.chunk_size > input.overlap) =>
        LET text == input.text
            size == input.chunk_size
            step == input.chunk_size - input.overlap
            docs == input.documents
            from(i) == (i - 1) * step
            to(i) == Min((i - 1) * step + size, Len(text))
        IN  /\ \A i \in 1..Len(docs) :
                /\ from(i) < Len(text)
                /\ docs[i] = [text |-> Chars(text, from(i), to(i))]
                /\ Len(docs[i].text) <= size
            /\ Len(docs) * step >= Len(text)
            /\ \A i \in 1..(Len(docs) - 1) :
                 Len(docs[i + 1].text) = size =>
                    /\ to(i) - from(i + 1) = input.overlap
                    /\ SubSeq(docs[i].text, size - input.overlap + 1, size)
                         = SubSeq(docs[i + 1].text, 1, input.overlap)
            /\ \A k \in 1..Len(text) :
                 \E i \in 1..Len(docs) :
                    \E j \in 1..Len(docs[i].text) :
                        from(i) + j = k /\ docs[i].text[j] = text[k]
            /\ (text = <<>> => docs = <<>>)

\* a text cut into several chunks that overlap, the last one cut by the
\* end of the text
C23_Witness ==
    /\ program = "chunk" /\ pc = "returned"
    /\ input.chunk_size > input.overlap /\ input.overlap >= 1
    /\ Len(input.documents) >= 3
    /\ Len(input.documents[Len(input.documents)].text) < input.chunk_size
    /\ Len(input.documents[2].text) = input.chunk_size

\* C24: in run_chat_loop, after any sequence of turns, every assistant
\* message that carries a tool call is immediately followed in the log by a
\* tool message with the same tool_call_id.
C24_Original ==
    program = "chat" =>
        \A i \in 1..Len(chat_history) :
            IsToolCallMessage(chat_history[i]) =>
                /\ i < Len(chat_history)
                /\ chat_history[i + 1].role = "tool"
                /\ chat_history[i + 1].tool_call_id = chat_history[i].tool_calls[1].id

\* C25: in run_chat_loop the content of a tool message appended in a turn
\* is the result the handler returned when it was invoked for that turn's
\* tool call; a result of an earlier turn is never appended for a later
\* call.
C25_Original ==
    (/\ program = "chat" /\ round.active
     /\ Len(chat_history) >= Len(round.log_before) + 2
     /\ chat_history[Len(round.log_before) + 2].role = "tool")
    => /\ round.called
       /\ invocations = 1
       /\ chat_history[Len(round.log_before) + 2].content = result.val

\* C26: whenever run_chat_loop reads the next user input the last message
\* of the log has role system or assistant; a turn that ended in an error
\* leaves no unanswered user message, so two consecutive user messages are
\* never submitted.
C26_Original ==
    /\ (program = "chat" /\ pc = "input" =>
            Last(chat_history).role \in {"system", "assistant"})
    /\ (program = "chat" /\ pc \in {"stream1", "stream2"} =>
            \A i \in 1..(Len(chat_history) - 1) :
                ~(chat_history[i].role = "user" /\ chat_history[i + 1].role = "user"))

\* the messages of the turn that satisfy a condition, counted
ToolMessagesOfTurn ==
    Cardinality({i \in (Len(turn_start) + 1)..Len(chat_history) :
                    chat_history[i].role = "tool"})

ToolCallMessagesOfTurn ==
    Cardinality({i \in (Len(turn_start) + 1)..Len(chat_history) :
                    IsToolCallMessage(chat_history[i])})

\* the user interrupted the round in progress at the feedback prompt:
\* the round is counted and nothing of it is in the log
RoundCutShort ==
    /\ outcome = "interrupted"
    /\ round.active /\ round.feedback
    /\ chat_history = round.log_before

\* C27 as stated: whenever run_agent_turn returns, for any reason, the
\* tool-call count equals the number of handler invocations of the turn and
\* the numbers of tool messages and of assistant tool-call messages the
\* turn appended.
C27_Original ==
    (program = "agent" /\ pc = "returned") =>
        /\ tool_call_count = invocations
        /\ tool_call_count = ToolMessagesOfTurn
        /\ tool_call_count = ToolCallMessagesOfTurn

\* C27 amended: whenever run_agent_turn returns, the count is the number of
\* rounds that named a tool; the handler invocations are at most that many;
\* the tool messages and the assistant tool-call messages appended are as
\* many as each other and as the count, less the one round an interrupt
\* cut short.
C27_CountAndRecords ==
    (program = "agent" /\ pc = "returned") =>
        /\ invocations <= tool_call_count
        /\ ToolMessagesOfTurn = ToolCallMessagesOfTurn
        /\ ToolMessagesOfTurn = tool_call_count - (IF RoundCutShort THEN 1 ELSE 0)

\* a turn returned after a recorded round that invoked no handler
C27_Witness ==
    /\ program = "agent" /\ pc = "returned"
    /\ outcome = "final"
    /\ tool_call_count >= 1
    /\ invocations < tool_call_count
    /\ ToolMessagesOfTurn = tool_call_count

\* a turn of run_chat_loop ends without an error
ChatTurnEndsOk == program = "chat" /\ pc # "input" /\ pc' = "input" /\ outcome' = "ok"

\* C28: in run_chat_loop a user turn makes at most two submissions and
\* invokes at most one tool handler; reading the stream of the second
\* submission executes nothing, whatever tool call it carries; and a turn
\* that raises no error ends by appending exactly one assistant message.
C28_TwoSubmissionsOneHandler ==
    [][program = "chat" =>
         /\ submissions' <= 2
         /\ invocations' <= 1
         /\ (pc = "stream2" /\ StreamRead) =>
                /\ invocations' = invocations
                /\ rounds' = rounds
                /\ result' = result
         /\ ChatTurnEndsOk =>
                /\ Len(chat_history') = Len(chat_history) + 1
                /\ IsPrefix(chat_history, chat_history')
                /\ Last(chat_history').role = "assistant"
                /\ ~IsToolCallMessage(Last(chat_history'))]_vars

\* a turn has ended after a tool round whose second stream carried a tool
\* call of its own, and content
C28_Witness ==
    /\ program = "chat" /\ pc = "input" /\ outcome = "ok"
    /\ submissions = 2 /\ invocations = 1
    /\ input.read /\ input.calls >= 1 /\ input.content # <<>>

\* an iteration of the while loop of chunk_text
ChunkIteration == program = "chunk" /\ pc = "loop" /\ input'.documents # input.documents

\* C29: chunk_text terminates for every finite text and all chunk_size >= 1
\* and overlap >= 0, also when overlap >= chunk_size.  The loop runs while
\* start < len(text) and every iteration adds the same chunk_size - overlap
\* to start, so it terminates exactly if every iteration moves start
\* towards the end of the text; a call that returns has made at most
\* len(text) iterations.
C29_Original ==
    /\ [][ChunkIteration => input'.start > input.start]_vars
    /\ [](program = "chunk" => Len(input.documents) <= Len(input.text))

\* C30: run_agent_turn asks the user for input only in a round whose tool
\* call is request_user_feedback with a non-empty question; the tool
\* message of that round contains the user's answer; and the marker the
\* tool produces never appears in the log.
C30_FeedbackOnlyOnRequest ==
    program = "agent" =>
        /\ (pc = "awaiting" \/ pending # <<>>) =>
               /\ round.active /\ round.name = "request_user_feedback"
               /\ HasKey(tool_kwargs, "question")
               /\ ~Falsy(DictGet(tool_kwargs, "question"))
               /\ pending = << <<DictGet(tool_kwargs, "question")>> >>
        /\ FeedbackAnswered =>
               /\ Last(chat_history).role = "tool"
               /\ Last(chat_history).tool_call_id = round.id
               /\ \E a \in Answers :
                     Last(chat_history).content = <<"User response: ">> \o a
        /\ \A i \in 1..Len(chat_history) :
               ~Contains(chat_history[i].content, MARKER)

\* the user has answered a question and the round is in the log
C30_Witness ==
    /\ FeedbackAnswered
    /\ Len(chat_history) = Len(round.log_before) + 2
    /\ Last(chat_history).role = "tool"
    /\ Last(chat_history).content = <<"User response: ", "it's about sales">>

====
